---- MODULE Spec2Model ----
(***************************************************************************)
(* A runctl Target of type execrun (pkg/runctl target + pkg/execrun Run    *)
(* and runner), as a state machine.                                        *)
(*                                                                         *)
(* Goroutines of the program and their model counterparts:                 *)
(*   - the callers of the Target's methods (HTTP handlers): the actions    *)
(*     Start, Stop, Kill, Build, StartExec, StopExec, and the Controller   *)
(*     operations RestartTarget, EnableTarget, DisableTarget;              *)
(*   - the run loop `go func() { execrun.Run(...); handleRunComplete }`:   *)
(*     thread Sup(l) of run loop l;                                        *)
(*   - the watcher's debounce timer goroutine (time.AfterFunc) running the *)
(*     change callback: thread Cb(k);                                      *)
(*   - the goroutine `go func() { cmd.Wait() ... }` of runner.start: the   *)
(*     field w of the process record;                                      *)
(*   - the managed OS processes: proc.                                     *)
(* Every step is one critical section (sync.Mutex) or one blocking call.   *)
(*                                                                         *)
(* The packages the Target builds on have specifications of their own over *)
(* the same variables: SpecWatcher (one Watcher, the file system and the   *)
(* debounce timer), SpecDiff and SpecSum (sumfile.Diff, Write and Read),   *)
(* SpecProcess (config.Process), SpecLoadConfig (runctl.LoadConfig and the  *)
(* loading of the targets' configs) and SpecGorun (gorun.Run, its Runner   *)
(* and its protocol lines).                                                *)
(***************************************************************************)
EXTENDS Naturals, FiniteSets, Sequences, TLC

\* Bounds of the model: run loops, callback goroutines and processes that
\* may exist at the same time (ids are reused once nothing refers to them).
MaxLoops == 2
MaxCallbacks == 1
MaxPid == 3
\* Bound on the external events of a run: calls of the Target's control
\* operations plus debounce timers that fire.
MaxEvents == 3

\* Bound on the paths under a watched root directory.
MaxPath == 3

\* Bound on the distinct contents a file takes.
MaxContent == 2

\* Bound on the distinct (modification time, size) pairs a file takes.
MaxStat == 2

\* Bound on the length of a path in a sum file.
MaxNameLen == 3

\* Bound on the number of entries of a sum file.
MaxEntries == 2

\* Bound on the number of ChangeSets the watcher delivers to gorun.Run.
MaxChanges == 2

\* Capacity of the Target's signal channels: make(chan struct{}, 1).
chanCap == 1

Loops == 1..MaxLoops
Pids == 1..MaxPid

\* TargetState constants.
StateIdle == "idle"
StateStarting == "starting"
StateRunning == "running"
StateStopped == "stopped"
StateError == "error"
StateExited == "exited"
TargetStates == {StateIdle, StateStarting, StateRunning, StateStopped, StateError, StateExited}

\* execrun.Config.Steps: the build (preparation) commands.
Steps(c) == c.build

\* execrun.Config.RunCmd: the last exec command, "" without exec commands.
RunCmd(c) == IF Len(c.exec) = 0 THEN "" ELSE c.exec[Len(c.exec)]

\* execrun.Config.IsBuildOnly.
IsBuildOnly(c) == Len(c.exec) = 0

\* The execrun configs of the model (valid by Config.Validate: at least
\* one build or exec command): two exec commands and no build command, one
\* build and one exec command, and a build-only config.
Configs ==
  { [build |-> <<>>, exec |-> <<"prep", "serve">>],
    [build |-> <<"make">>, exec |-> <<"serve">>],
    [build |-> <<"make">>, exec |-> <<>>] }

VARIABLES
  cfg,           \* the target's execrun config (build and exec command lists)
  state,         \* target.state
  pid,           \* target.pid (0: none)
  cancel,        \* target.cancel: the run loop whose context it cancels (0: nil)
  buildCount,    \* target.buildCount
  restartCount,  \* target.restartCount
  lastExecTime,  \* target.lastExecTime != nil
  lastStartTime, \* target.lastStartTime != nil
  buildTrigger,  \* target.buildTrigger: the number of signals it holds (0..chanCap)
  execStop,      \* target.execStop holds a signal
  execStart,     \* target.execStart holds a signal
  ctxDone,       \* per run loop: its context is cancelled
  cmd,           \* per run loop: runner.cmd as the pid of its process (0: nil or not started)
  stopping,      \* per run loop: runner.stopping
  exited,        \* per run loop: runner.exited, a one-slot channel of exitInfo (pid 0: empty)
  watcher,       \* per run loop: "off" (not launched), "on", "stopped" (Watcher.Run returned)
  th,            \* goroutines: the run loops' supervisors and the change callbacks
  proc,          \* OS processes started by runner.start and their wait goroutines
  enabled,       \* target.enabled (initially tcfg.IsEnabled(): an enabled target)
  ctl,           \* the Controller call in progress, between its two calls
  files,         \* the watched files' contents, as a version number
  sumFile,       \* the persisted sum file: the version of the files it records
  lastOp,        \* the last control operation accepted by the Target (history)
  posted,        \* the commands whose signal was posted while no run loop existed, no command but Start made since (history)
  calls,         \* the external events since the goroutines last took a step (history)
  nev,           \* number of external events so far (bounded by MaxEvents)
  wpc,           \* a Watcher's position: "none", "new", "set" (SetCurrentSums done), "run"
  disk,          \* the files under the Watcher's root: per path NoFile or <<content, stat>>
  fsEvents,      \* paths with an fsnotify event not yet received by Watcher.Run
  trackedFiles,  \* Watcher.trackedFiles
  statCache,     \* Watcher.statCache: per path NoFile or <<stat>>
  currentSums,   \* Watcher.currentSums: per path NoFile or a hash
  dirty,         \* Watcher.dirty
  pendingChanges,\* Run's pendingChanges (NoChanges: nil)
  debounceTimer, \* Run's debounceTimer is armed
  delivered,     \* the ChangeSet of the last onChange call (NoChanges: none yet) (history)
  touched,       \* the paths written or removed since the initial scan (history)
  quiet,         \* the Watcher has scanned, and no file was written or removed since (history)
  firing,        \* number of debounce goroutines between their onChange call and `pendingChanges = nil`
  undelivered,   \* the paths a scan found changed since the last onChange call that held them (history)
  arg,           \* the input of a call of a pure function
  res            \* the result of that call

stats == <<buildCount, restartCount, lastExecTime, lastStartTime>>
tvars == <<state, pid, cancel, stats>>
fvars == <<files, sumFile>>
cvars == <<enabled, ctl>>
chans == <<buildTrigger, execStop, execStart>>
rvars == <<cmd, stopping, exited>>
wvars == <<wpc, disk, fsEvents, trackedFiles, statCache, currentSums, dirty,
           pendingChanges, debounceTimer, delivered, touched, quiet, firing, undelivered>>
aux == <<wvars, arg, res>>
target == <<cfg, state, pid, cancel, stats, buildTrigger, execStop, execStart,
            ctxDone, cmd, stopping, exited, watcher, th, proc, cvars, fvars, lastOp, posted>>
vars == <<target, calls, nev, aux>>

Sup(l) == <<"sup", l>>
Cb(k) == <<"cb", k>>
Sups == {Sup(l) : l \in Loops}
Cbs == {Cb(k) : k \in 1..MaxCallbacks}
Threads == Sups \cup Cbs

\* A goroutine that does not exist: pc "none". cmd is the local `cmd` of
\* runner.stop; prior is the process the runner tracked when the thread
\* entered runner.restart (history, 0 outside restart); stepsErr is the
\* result of that restart's execSteps and started the process its start()
\* launched (history); ran is the list of commands its last execSteps ran
\* (history); err is the error Run returns ("nil": none).
NoThread == [pc |-> "none", loop |-> 0, cmd |-> 0, prior |-> 0, stepsErr |-> FALSE,
             started |-> 0, ran |-> <<>>, err |-> "nil"]

\* An unused process id.
\* sig is the strongest signal sent to its group; sigBy names who sent the first
\* one (history): a thread in runner.stop, or target.Kill. old: the process
\* exited on its own during a restart whose start() has since succeeded (history).
\* cmdline is the shell command it runs.
NoSig == <<"none", 0>>
KillSig == <<"Kill", 0>>
NoProc == [st |-> "free", loop |-> 0, sig |-> "none", sigBy |-> NoSig, code |-> 0,
           w |-> "done", old |-> FALSE, cmdline |-> ""]

\* The empty exit channel. stopped: the exit recorded was caused by
\* runner.stop (history).
NoExit == [pid |-> 0, code |-> 0, stopped |-> FALSE]

\* len(cfg.Steps()) > 0.
hasSteps == Len(Steps(cfg)) > 0

Paths == 1..MaxPath
Contents == 1..MaxContent
Stats == 1..MaxStat

\* No such file; no entry under a path in a map keyed by path.
NoFile == <<>>

\* A ChangeSet with three empty lists; also stands for a nil *ChangeSet.
NoChanges == [Added |-> <<>>, Modified |-> <<>>, Removed |-> <<>>]

\* No Watcher exists.
WatcherIdle ==
  /\ wpc = "none"
  /\ disk = [p \in Paths |-> NoFile]
  /\ fsEvents = {}
  /\ trackedFiles = {}
  /\ statCache = [p \in Paths |-> NoFile]
  /\ currentSums = [p \in Paths |-> NoFile]
  /\ dirty = FALSE
  /\ pendingChanges = NoChanges
  /\ debounceTimer = FALSE
  /\ delivered = NoChanges
  /\ touched = {}
  /\ quiet = FALSE
  /\ firing = 0
  /\ undelivered = {}

\* No pure function is being called.
PureIdle == arg = <<>> /\ res = <<>>

TargetInit ==
  /\ cfg \in Configs
  /\ state = StateIdle
  /\ pid = 0
  /\ cancel = 0
  /\ buildCount = 0
  /\ restartCount = 0
  /\ lastExecTime = FALSE
  /\ lastStartTime = FALSE
  /\ buildTrigger = 0
  /\ execStop = FALSE
  /\ execStart = FALSE
  /\ ctxDone = [l \in Loops |-> FALSE]
  /\ cmd = [l \in Loops |-> 0]
  /\ stopping = [l \in Loops |-> FALSE]
  /\ exited = [l \in Loops |-> NoExit]
  /\ watcher = [l \in Loops |-> "off"]
  /\ th = [t \in Threads |-> NoThread]
  /\ proc = [p \in Pids |-> NoProc]
  /\ enabled = TRUE
  /\ ctl = "idle"
  /\ files = 0
  /\ sumFile = 0
  /\ lastOp = "none"
  /\ posted = {}
  /\ calls = <<>>
  /\ nev = 0

Init == TargetInit /\ WatcherIdle /\ PureIdle


(***************************************************************************)
(* Helpers                                                                 *)
(***************************************************************************)

\* Run loop l is over: its supervisor returned, its watcher stopped, and no
\* callback or process of it is left. Its id may then name a new run loop.
LoopFree(l) ==
  /\ th[Sup(l)].pc \in {"none", "done"}
  /\ watcher[l] # "on"
  /\ \A t \in Cbs : th[t].loop # l
  /\ \A p \in Pids : proc[p].loop # l

\* Process id p is used by nothing: the OS may hand it out again.
PidFree(p) ==
  /\ proc[p].st = "free"
  /\ pid # p
  /\ \A l \in Loops : cmd[l] # p /\ exited[l].pid # p
  /\ \A t \in Threads : th[t].cmd # p /\ th[t].prior # p /\ th[t].started # p

FreePids == {p \in Pids : PidFree(p)}
FreeLoops == {l \in Loops : LoopFree(l)}
Min(S) == CHOOSE x \in S : \A y \in S : x <= y

Alive(p) == p # 0 /\ proc[p].st = "alive"
\* The processes started by run loop l's runner that are alive.
LiveOf(l) == {p \in Pids : proc[p].st = "alive" /\ proc[p].loop = l}
LiveProcs == {p \in Pids : proc[p].st = "alive"}

(***************************************************************************)
(* target: status callbacks (each one critical section of target.mu)       *)
(***************************************************************************)

\* The callbacks return the Target's status fields after the call.

\* The Target's status fields as they are.
Status ==
  [state |-> state, pid |-> pid, buildCount |-> buildCount, restartCount |-> restartCount,
   lastExecTime |-> lastExecTime, lastStartTime |-> lastStartTime]

\* target.onExecStart.
onExecStart ==
  [Status EXCEPT !.state = StateStarting, !.lastExecTime = TRUE, !.buildCount = @ + 1]

\* onExecDone without `this.state = StateError`.
onExecDone_noError(failed) == Status

\* target.onExecDone, with err # nil (failed) or err = nil.
onExecDone(failed) == [Status EXCEPT !.state = IF failed THEN StateError ELSE @]

\* target.onProcessStart.
onProcessStart(p) ==
  [Status EXCEPT !.state = StateRunning, !.pid = p, !.lastStartTime = TRUE,
                 !.restartCount = IF restartCount > 0 \/ lastExecTime THEN @ + 1 ELSE @]

\* onProcessExit without `this.pid = 0`.
onProcessExit_keepPid(exitCode) ==
  [Status EXCEPT !.state = IF exitCode = 0 THEN StateExited ELSE StateError]

\* target.onProcessExit.
onProcessExit(exitCode) ==
  [Status EXCEPT !.state = IF exitCode = 0 THEN StateExited ELSE StateError, !.pid = 0]

\* target.handleRunComplete(ctx, err): cancelled is ctx.Err() # nil.
handleRunComplete(cancelled, err) ==
  [Status EXCEPT !.state = IF cancelled THEN StateStopped
                           ELSE IF err # "nil" THEN StateError ELSE @,
                 !.pid = 0]

SetStatus(r) ==
  /\ state' = r.state
  /\ pid' = r.pid
  /\ buildCount' = r.buildCount
  /\ restartCount' = r.restartCount
  /\ lastExecTime' = r.lastExecTime
  /\ lastStartTime' = r.lastStartTime

\* One more call e of the Target's interface or file change, within the bound.
Event(e) ==
  /\ nev < MaxEvents
  /\ nev' = nev + 1
  /\ calls' = Append(calls, e)
  /\ posted' = IF e = "Start" THEN posted
               ELSE IF e \in {"StopExec", "StartExec", "Build"}
                       /\ \A l \in Loops : th[Sup(l)].pc \in {"none", "done"}
                 THEN IF \/ e = "StopExec" /\ ~execStop
                         \/ e = "StartExec" /\ ~execStart
                         \/ e = "Build" /\ buildTrigger < chanCap
                        THEN posted \cup {e} ELSE posted
                 ELSE {}
  /\ UNCHANGED aux

\* A step of one of the program's goroutines.
Step == nev' = nev /\ calls' = <<>> /\ posted' = posted /\ UNCHANGED aux

(***************************************************************************)
(* target: control operations                                              *)
(***************************************************************************)

\* target.Start followed by startExecrun: rejected while running or
\* starting; otherwise state = starting, then execrun.LoadConfig either
\* fails (state = error), or a new context is made and its cancel function
\* stored in target.cancel; then either a log file cannot be opened (the
\* context is cancelled and the error returned), or the run loop goroutine
\* is launched with that context.
tStart ==
  /\ state \notin {StateRunning, StateStarting}
  /\ \/ /\ state' = StateError
        /\ UNCHANGED <<pid, cancel, stats, ctxDone, rvars, watcher, th, lastOp>>
     \/ /\ FreeLoops # {}
        /\ LET l == Min(FreeLoops) IN
           /\ state' = StateStarting
           /\ cancel' = l
           /\ ctxDone' = [ctxDone EXCEPT ![l] = TRUE]
        /\ UNCHANGED <<pid, stats, rvars, watcher, th, lastOp>>
     \/ /\ FreeLoops # {}
        /\ LET l == Min(FreeLoops) IN
           /\ state' = StateStarting
           /\ cancel' = l
           /\ ctxDone' = [ctxDone EXCEPT ![l] = FALSE]
           /\ cmd' = [cmd EXCEPT ![l] = 0]
           /\ stopping' = [stopping EXCEPT ![l] = FALSE]
           /\ exited' = [exited EXCEPT ![l] = NoExit]
           /\ watcher' = [watcher EXCEPT ![l] = "off"]
           /\ th' = [th EXCEPT ![Sup(l)] = [NoThread EXCEPT !.pc = "run", !.loop = l]]
        /\ lastOp' = "none"
        /\ UNCHANGED <<pid, stats>>
  /\ UNCHANGED <<cfg, fvars, chans, proc>>

\* A call of target.Start through Controller.StartTarget.
Start == Event("Start") /\ tStart /\ UNCHANGED cvars

\* target.Build on an unbounded queue: every request is kept.
Build_queue ==
  /\ Event("Build")
  /\ buildTrigger' = buildTrigger + 1
  /\ lastOp' = IF lastOp = "StopExec" THEN "none" ELSE lastOp
  /\ UNCHANGED <<cfg, cvars, fvars, tvars, execStop, execStart, ctxDone, rvars, watcher, th, proc>>

\* target.Build: non-blocking send on buildTrigger (dropped when it is full).
Build ==
  /\ Event("Build")
  /\ buildTrigger' = IF buildTrigger < chanCap THEN buildTrigger + 1 ELSE buildTrigger
  /\ lastOp' = IF lastOp = "StopExec" THEN "none" ELSE lastOp
  /\ UNCHANGED <<cfg, cvars, fvars, tvars, execStop, execStart, ctxDone, rvars, watcher, th, proc>>

\* target.StartExec: non-blocking send on execStart (dropped when it is full).
StartExec ==
  /\ Event("StartExec")
  /\ execStart' = TRUE
  /\ lastOp' = IF lastOp = "StopExec" THEN "none" ELSE lastOp
  /\ UNCHANGED <<cfg, cvars, fvars, tvars, buildTrigger, execStop, ctxDone, rvars, watcher, th, proc>>

\* target.StopExec: non-blocking send on execStop; when the signal is
\* accepted, state = stopped and pid = 0 at once; when the channel is full
\* (default case) nothing happens.
StopExec ==
  /\ Event("StopExec")
  /\ execStop' = TRUE
  /\ IF ~execStop
       THEN /\ state' = StateStopped
            /\ pid' = 0
            /\ lastOp' = IF state = StateRunning /\ Alive(pid) THEN "StopExec" ELSE lastOp
       ELSE UNCHANGED <<state, pid, lastOp>>
  /\ UNCHANGED <<cfg, cvars, fvars, cancel, stats, buildTrigger, execStart, ctxDone, rvars, watcher, th, proc>>

\* target.Stop reporting a Target that has no run loop as idle.
tStop_idle ==
  /\ cancel' = 0
  /\ state' = IF cancel # 0 THEN StateStopped ELSE StateIdle
  /\ ctxDone' = IF cancel # 0 THEN [ctxDone EXCEPT ![cancel] = TRUE] ELSE ctxDone
  /\ lastOp' = IF cancel # 0 \/ lastOp = "Stop" THEN "Stop" ELSE "none"
  /\ UNCHANGED <<cfg, fvars, pid, stats, chans, rvars, watcher, th, proc>>

\* target.Stop: takes target.cancel, sets it to nil and state to stopped,
\* then cancels the run loop's context.
tStop ==
  /\ cancel' = 0
  /\ state' = StateStopped
  /\ ctxDone' = IF cancel # 0 THEN [ctxDone EXCEPT ![cancel] = TRUE] ELSE ctxDone
  /\ lastOp' = IF cancel # 0 \/ lastOp = "Stop" THEN "Stop" ELSE "none"
  /\ UNCHANGED <<cfg, fvars, pid, stats, chans, rvars, watcher, th, proc>>

\* A call of target.Stop through Controller.StopTarget.
Stop == Event("Stop") /\ tStop /\ UNCHANGED cvars

\* target.Kill: as Stop, then SIGKILL to the process group of target.pid
\* (syscall.Getpgid fails for a process that no longer exists).
Kill ==
  /\ Event("Kill")
  /\ cancel' = 0
  /\ state' = StateStopped
  /\ ctxDone' = IF cancel # 0 THEN [ctxDone EXCEPT ![cancel] = TRUE] ELSE ctxDone
  /\ proc' = IF Alive(pid)
               THEN [proc EXCEPT ![pid].sig = "KILL",
                                 ![pid].sigBy = IF @ = NoSig THEN KillSig ELSE @]
               ELSE proc
  /\ lastOp' = IF lastOp = "Stop" THEN "Stop" ELSE "none"
  /\ UNCHANGED <<cfg, cvars, fvars, pid, stats, chans, rvars, watcher, th>>


(***************************************************************************)
(* Controller: operations made of two Target calls                         *)
(***************************************************************************)

\* Controller.RestartTarget, first call: t.Stop().
RestartTarget ==
  /\ ctl = "idle"
  /\ Event("RestartTarget")
  /\ tStop
  /\ ctl' = "restart"
  /\ UNCHANGED enabled

\* Controller.EnableTarget, first part: t.enabled = true under t.mu.
EnableTarget ==
  /\ ctl = "idle"
  /\ Event("EnableTarget")
  /\ enabled' = TRUE
  /\ ctl' = "enable"
  /\ UNCHANGED <<cfg, fvars, tvars, chans, ctxDone, rvars, watcher, th, proc, lastOp>>

\* `return t.Start()` taking the flag back when Start returns its error
\* "already running".
ReturnStart_undo ==
  /\ ctl \in {"restart", "enable"}
  /\ ctl' = "idle"
  /\ Event("Start")
  /\ IF state \in {StateRunning, StateStarting}
       THEN /\ enabled' = FALSE
            /\ UNCHANGED <<cfg, fvars, tvars, chans, ctxDone, rvars, watcher, th, proc, lastOp>>
       ELSE tStart /\ UNCHANGED enabled

\* `return t.Start()` of RestartTarget and of EnableTarget: target.Start,
\* or its error "already running" with nothing changed.
ReturnStart ==
  /\ ctl \in {"restart", "enable"}
  /\ ctl' = "idle"
  /\ Event("Start")
  /\ IF state \in {StateRunning, StateStarting}
       THEN UNCHANGED <<cfg, fvars, tvars, chans, ctxDone, rvars, watcher, th, proc, lastOp>>
       ELSE tStart
  /\ UNCHANGED enabled

\* Controller.DisableTarget, first call: t.Stop().
DisableTarget ==
  /\ ctl = "idle"
  /\ Event("DisableTarget")
  /\ tStop
  /\ ctl' = "disable"
  /\ UNCHANGED enabled

\* Controller.DisableTarget, second part: t.enabled = false under t.mu.
DisableFlag ==
  /\ ctl = "disable"
  /\ ctl' = "idle"
  /\ enabled' = FALSE
  /\ UNCHANGED <<cfg, fvars, tvars, chans, ctxDone, rvars, watcher, th, proc, lastOp>>
  /\ Step

(***************************************************************************)
(* execrun runner                                                          *)
(***************************************************************************)

\* runner.execSteps returns an error: the commands are run with
\* exec.CommandContext, so they fail once the context is cancelled; with
\* no build commands the loop body never runs and the result is nil.
\* k is the outcome of the commands themselves: the k-th one fails (0: none).
execStepsFails(l, k) == hasSteps /\ (ctxDone[l] \/ k > 0)

\* The commands runner.execSteps has run when it returns: all of Steps(), in
\* order, or those up to the one that failed.
execStepsRan(l, k) ==
  IF execStepsFails(l, k)
    THEN SubSeq(Steps(cfg), 1, IF k > 0 THEN k ELSE 1)
    ELSE Steps(cfg)

\* restart without `if err != nil { return }`: stop() whatever execSteps returned.
restartAfterSteps_ignoreErr(failed) == "stop"

\* runner.restart after execSteps: `if err != nil { return }`, else stop().
restartAfterSteps(failed) == IF failed THEN "failed" ELSE "stop"

\* runner.start, cmd.Start succeeding: stopping = false, cmd = the new
\* process, OnProcessStart(pid), and the wait goroutine is launched.
\* o is the process the calling restart found at its entry (0: none, or
\* not called from restart): it is marked old when it exited on its own.
startOk(l, o) ==
  /\ FreePids # {}
  /\ LET p == Min(FreePids) IN
     /\ stopping' = [stopping EXCEPT ![l] = FALSE]
     /\ cmd' = [cmd EXCEPT ![l] = p]
     /\ proc' = [q \in Pids |->
                  IF q = p THEN [st |-> "alive", loop |-> l, sig |-> "none", sigBy |-> NoSig,
                                 code |-> 0, w |-> "wait", old |-> FALSE,
                                 cmdline |-> RunCmd(cfg)]
                  ELSE IF q = o /\ proc[q].st = "dead" /\ proc[q].sig = "none"
                         THEN [proc[q] EXCEPT !.old = TRUE]
                         ELSE proc[q]]
     /\ SetStatus(onProcessStart(p))

\* runner.start, cmd.Start failing: stopping = false, cmd = a Cmd without a
\* Process (running() is false, stop() returns at once), error returned.
startFail(l) ==
  /\ stopping' = [stopping EXCEPT ![l] = FALSE]
  /\ cmd' = [cmd EXCEPT ![l] = 0]
  /\ UNCHANGED <<proc, state, pid, stats>>

\* runner.stop up to its wait: takes cmd, sets cmd = nil and stopping = true;
\* with a live process, SIGTERM to its group and wait for it (waitPc);
\* with none, or one that has already exited, return (retPc).
stop(t, l, waitPc, retPc) ==
  LET c == cmd[l] IN
  /\ cmd' = [cmd EXCEPT ![l] = 0]
  /\ stopping' = [stopping EXCEPT ![l] = TRUE]
  /\ IF Alive(c)
       THEN /\ proc' = [proc EXCEPT ![c].sig = IF @ = "none" THEN "TERM" ELSE @,
                                    ![c].sigBy = IF @ = NoSig THEN t ELSE @]
            /\ th' = [th EXCEPT ![t].pc = waitPc, ![t].cmd = c]
       ELSE /\ proc' = proc
            /\ th' = [th EXCEPT ![t].pc = retPc]

\* Where a thread waiting in runner.stop continues once the process is gone.
AfterWait(pc) ==
  CASE pc = "wait" -> "drain"
    [] pc = "es_wait" -> "select"
    [] pc = "cl_wait" -> "complete"
WaitPcs == {"wait", "es_wait", "cl_wait"}

\* runner.stop: `<-done`, cmd.Process.Wait() has returned.
StopWait(t) ==
  /\ th[t].pc \in WaitPcs
  /\ ~Alive(th[t].cmd)
  /\ th' = [th EXCEPT ![t].pc = AfterWait(th[t].pc), ![t].cmd = 0]
  /\ UNCHANGED <<cfg, cvars, fvars, tvars, chans, ctxDone, rvars, watcher, proc, lastOp>>
  /\ Step

\* runner.stop giving up at the timeout: it returns with the process alive.
StopTimeout_giveUp(t) ==
  /\ th[t].pc \in WaitPcs
  /\ Alive(th[t].cmd)
  /\ proc[th[t].cmd].sig = "TERM"
  /\ th' = [th EXCEPT ![t].pc = AfterWait(th[t].pc), ![t].cmd = 0]
  /\ UNCHANGED <<cfg, cvars, fvars, tvars, chans, ctxDone, rvars, watcher, proc, lastOp>>
  /\ Step

\* runner.stop: `<-time.After(5 * time.Second)`, SIGKILL to the group.
StopTimeout(t) ==
  /\ th[t].pc \in WaitPcs
  /\ Alive(th[t].cmd)
  /\ proc[th[t].cmd].sig = "TERM"
  /\ proc' = [proc EXCEPT ![th[t].cmd].sig = "KILL"]
  /\ UNCHANGED <<cfg, cvars, fvars, tvars, chans, ctxDone, rvars, watcher, th, lastOp>>
  /\ Step

\* runner.execSteps returning, inside runner.restart: OnExecDone(dur, err).
RestartSteps(t) ==
  /\ th[t].pc = "steps"
  /\ \E k \in 0..Len(Steps(cfg)) :
       LET failed == execStepsFails(th[t].loop, k) IN
       /\ SetStatus(onExecDone(failed))
       /\ th' = [th EXCEPT ![t].pc = restartAfterSteps(failed), ![t].stepsErr = failed,
                           ![t].ran = execStepsRan(th[t].loop, k)]
  /\ UNCHANGED <<cfg, cvars, fvars, cancel, chans, ctxDone, rvars, watcher, proc, lastOp>>
  /\ Step

\* runner.restart: this.stop().
RestartStop(t) ==
  /\ th[t].pc = "stop"
  /\ stop(t, th[t].loop, "wait", "drain")
  /\ UNCHANGED <<cfg, cvars, fvars, tvars, chans, ctxDone, exited, watcher, lastOp>>
  /\ Step

\* runner.restart: drain stale exit info, `select { case <-this.exited: default: }`.
RestartDrain(t) ==
  /\ th[t].pc = "drain"
  /\ exited' = [exited EXCEPT ![th[t].loop] = NoExit]
  /\ th' = [th EXCEPT ![t].pc = "start"]
  /\ UNCHANGED <<cfg, cvars, fvars, tvars, chans, ctxDone, cmd, stopping, watcher, proc, lastOp>>
  /\ Step

\* runner.restart: this.start(), returning nil ("ok") or "start: ..." .
RestartStart(t) ==
  /\ th[t].pc = "start"
  /\ \/ /\ startOk(th[t].loop, th[t].prior)
        /\ th' = [th EXCEPT ![t].pc = "ok", ![t].started = Min(FreePids)]
     \/ /\ startFail(th[t].loop)
        /\ th' = [th EXCEPT ![t].pc = "failed_start"]
  /\ UNCHANGED <<cfg, cvars, fvars, cancel, chans, ctxDone, exited, watcher, lastOp>>
  /\ Step

ReturnPcs == {"ok", "failed", "failed_start"}

\* runner.restart has returned to its caller: the BuildTrigger case of
\* Run's loop goes back to select; the watcher callback, after a
\* successful restart, scans the files and writes the sum file, then
\* returns and its goroutine ends.
RestartReturn(t) ==
  /\ th[t].pc \in ReturnPcs
  /\ sumFile' = IF t \in Cbs /\ th[t].pc = "ok" THEN files ELSE sumFile
  /\ th' = [th EXCEPT ![t] = IF t \in Sups
                               THEN [@ EXCEPT !.pc = "select", !.prior = 0, !.stepsErr = FALSE,
                                               !.started = 0, !.ran = <<>>]
                               ELSE NoThread]
  /\ UNCHANGED <<cfg, cvars, files, tvars, chans, ctxDone, rvars, watcher, proc, lastOp>>
  /\ Step


(***************************************************************************)
(* execrun.Run: the run loop of a Target                                   *)
(***************************************************************************)

\* Run up to the initial pipeline: the initial scan or the sum file write
\* fails and Run returns the error; otherwise the sum file holds the
\* initial scan, and a build-only config enters
\* runBuildOnly and its execSteps (OnExecStart); or, with build commands,
\* execSteps is entered (OnExecStart); or, with none, Run goes on to r.start().
RunInit(l) ==
  /\ th[Sup(l)].pc = "run"
  /\ \/ /\ th' = [th EXCEPT ![Sup(l)].pc = "complete", ![Sup(l)].err = "initial scan"]
        /\ UNCHANGED <<state, pid, stats, sumFile>>
     \/ /\ sumFile' = files
        /\ \/ /\ IsBuildOnly(cfg)
              /\ SetStatus(onExecStart)
              /\ th' = [th EXCEPT ![Sup(l)].pc = "bo_init"]
           \/ /\ ~IsBuildOnly(cfg) /\ hasSteps
              /\ SetStatus(onExecStart)
              /\ th' = [th EXCEPT ![Sup(l)].pc = "init_steps"]
           \/ /\ ~IsBuildOnly(cfg) /\ ~hasSteps
              /\ th' = [th EXCEPT ![Sup(l)].pc = "init_start"]
              /\ UNCHANGED <<state, pid, stats>>
  /\ UNCHANGED <<cfg, cvars, files, cancel, chans, ctxDone, rvars, watcher, proc, lastOp>>
  /\ Step

\* The initial execSteps returns: OnExecDone; on error Run returns
\* "exec failed" (deferred r.cleanup() runs first).
RunSteps(l) ==
  /\ th[Sup(l)].pc = "init_steps"
  /\ \E k \in 0..Len(Steps(cfg)) :
       LET failed == execStepsFails(l, k) IN
       /\ SetStatus(onExecDone(failed))
       /\ th' = [th EXCEPT ![Sup(l)].pc = IF failed THEN "cleanup" ELSE "init_start",
                           ![Sup(l)].err = IF failed THEN "exec failed" ELSE "nil",
                           ![Sup(l)].ran = execStepsRan(l, k)]
  /\ UNCHANGED <<cfg, cvars, fvars, cancel, chans, ctxDone, rvars, watcher, proc, lastOp>>
  /\ Step

\* The initial r.start(): on error Run returns "initial start"; otherwise
\* the watcher is created and `go w.Run(ctx)` launched, and Run enters its loop.
RunStart(l) ==
  /\ th[Sup(l)].pc = "init_start"
  /\ \/ /\ startOk(l, 0)
        /\ th' = [th EXCEPT ![Sup(l)].pc = "select"]
        /\ watcher' = [watcher EXCEPT ![l] = "on"]
     \/ /\ startFail(l)
        /\ th' = [th EXCEPT ![Sup(l)].pc = "cleanup", ![Sup(l)].err = "initial start"]
        /\ UNCHANGED watcher
  /\ UNCHANGED <<cfg, cvars, fvars, cancel, chans, ctxDone, exited, lastOp>>
  /\ Step

\* select: case <-ctx.Done(): return nil.
SelectDone(l) ==
  /\ th[Sup(l)].pc \in {"select", "bo_select"}
  /\ ctxDone[l]
  /\ th' = [th EXCEPT ![Sup(l)].pc = "cleanup", ![Sup(l)].err = "nil"]
  /\ UNCHANGED <<cfg, cvars, fvars, tvars, chans, ctxDone, rvars, watcher, proc, lastOp>>
  /\ Step

\* case info := <-r.exited with an automatic retry: the exit is taken and
\* r.restart() is called.
SelectExited_retry(l) ==
  /\ th[Sup(l)].pc = "select"
  /\ exited[l].pid # 0
  /\ exited' = [exited EXCEPT ![l] = NoExit]
  /\ SetStatus(onExecStart)
  /\ th' = [th EXCEPT ![Sup(l)].pc = "steps"]
  /\ UNCHANGED <<cfg, cvars, fvars, cancel, chans, ctxDone, cmd, stopping, watcher, proc, lastOp>>
  /\ Step

\* select: case info := <-r.exited: the exit is logged.
SelectExited(l) ==
  /\ th[Sup(l)].pc = "select"
  /\ exited[l].pid # 0
  /\ exited' = [exited EXCEPT ![l] = NoExit]
  /\ UNCHANGED <<cfg, cvars, fvars, tvars, chans, ctxDone, cmd, stopping, watcher, th, proc, lastOp>>
  /\ Step

\* select: case <-opts.BuildTrigger: r.restart(), which enters execSteps
\* (OnExecStart).
SelectBuild(l) ==
  /\ th[Sup(l)].pc = "select"
  /\ buildTrigger > 0
  /\ buildTrigger' = buildTrigger - 1
  /\ SetStatus(onExecStart)
  /\ th' = [th EXCEPT ![Sup(l)].pc = "steps",
                      ![Sup(l)].prior = IF Alive(cmd[l]) THEN cmd[l] ELSE 0]
  /\ UNCHANGED <<cfg, cvars, fvars, cancel, execStop, execStart, ctxDone, rvars, watcher, proc, lastOp>>
  /\ Step

\* select: case <-opts.ExecStop: r.stop().
SelectExecStop(l) ==
  /\ th[Sup(l)].pc = "select"
  /\ execStop
  /\ execStop' = FALSE
  /\ stop(Sup(l), l, "es_wait", "select")
  /\ UNCHANGED <<cfg, cvars, fvars, tvars, buildTrigger, execStart, ctxDone, exited, watcher, lastOp>>
  /\ Step

\* select: case <-opts.ExecStart: r.start(); an error is only logged.
SelectExecStart(l) ==
  /\ th[Sup(l)].pc = "select"
  /\ execStart
  /\ execStart' = FALSE
  /\ (startOk(l, 0) \/ startFail(l))
  /\ UNCHANGED <<cfg, cvars, fvars, cancel, buildTrigger, execStop, ctxDone, exited, watcher, th, lastOp>>
  /\ Step

\* Run returns: the deferred r.cleanup() calls r.stop().
Cleanup(l) ==
  /\ th[Sup(l)].pc = "cleanup"
  /\ stop(Sup(l), l, "cl_wait", "complete")
  /\ UNCHANGED <<cfg, cvars, fvars, tvars, chans, ctxDone, exited, watcher, lastOp>>
  /\ Step

\* The run loop goroutine calls target.handleRunComplete(ctx, err) and ends.
Complete(l) ==
  /\ th[Sup(l)].pc = "complete"
  /\ SetStatus(handleRunComplete(ctxDone[l], th[Sup(l)].err))
  /\ th' = [th EXCEPT ![Sup(l)] = [NoThread EXCEPT !.pc = "done", !.loop = l]]
  /\ UNCHANGED <<cfg, cvars, fvars, cancel, chans, ctxDone, rvars, watcher, proc, lastOp>>
  /\ Step

(***************************************************************************)
(* execrun.runBuildOnly: the run loop of a build-only Target               *)
(***************************************************************************)

\* The initial execSteps of runBuildOnly returns: OnExecDone; on error
\* Run returns "build failed"; otherwise the watcher is launched and the
\* loop entered.
BuildOnlyInit(l) ==
  /\ th[Sup(l)].pc = "bo_init"
  /\ \E k \in 0..Len(Steps(cfg)) :
       LET failed == execStepsFails(l, k) IN
       /\ SetStatus(onExecDone(failed))
       /\ th' = [th EXCEPT ![Sup(l)].pc = IF failed THEN "cleanup" ELSE "bo_select",
                           ![Sup(l)].err = IF failed THEN "build failed" ELSE "nil",
                           ![Sup(l)].ran = execStepsRan(l, k)]
       /\ watcher' = [watcher EXCEPT ![l] = IF failed THEN @ ELSE "on"]
  /\ UNCHANGED <<cfg, cvars, fvars, cancel, chans, ctxDone, rvars, proc, lastOp>>
  /\ Step

\* runBuildOnly, select: case <-opts.BuildTrigger: r.execSteps() (OnExecStart).
BuildOnlyBuild(l) ==
  /\ th[Sup(l)].pc = "bo_select"
  /\ buildTrigger > 0
  /\ buildTrigger' = buildTrigger - 1
  /\ SetStatus(onExecStart)
  /\ th' = [th EXCEPT ![Sup(l)].pc = "bo_steps"]
  /\ UNCHANGED <<cfg, cvars, fvars, cancel, execStop, execStart, ctxDone, rvars, watcher, proc, lastOp>>
  /\ Step

\* The change callback of runBuildOnly: l.Change(changes), then
\* r.execSteps() (OnExecStart).
BuildOnlyChanged(t) ==
  /\ t \in Cbs
  /\ th[t].pc = "changed"
  /\ IsBuildOnly(cfg)
  /\ SetStatus(onExecStart)
  /\ th' = [th EXCEPT ![t].pc = "bo_steps"]
  /\ UNCHANGED <<cfg, cvars, fvars, cancel, chans, ctxDone, rvars, watcher, proc, lastOp>>
  /\ Step

\* A later execSteps of runBuildOnly returns: OnExecDone; the BuildTrigger
\* case goes back to select; the change callback, after a successful
\* build, scans the files and writes the sum file, then returns.
BuildOnlySteps(t) ==
  /\ th[t].pc = "bo_steps"
  /\ \E k \in 0..Len(Steps(cfg)) :
       LET failed == execStepsFails(th[t].loop, k) IN
       /\ SetStatus(onExecDone(failed))
       /\ th' = [th EXCEPT ![t] = IF t \in Sups THEN [@ EXCEPT !.pc = "bo_select"]
                                                  ELSE NoThread]
       /\ sumFile' = IF t \in Cbs /\ ~failed THEN files ELSE sumFile
  /\ UNCHANGED <<cfg, cvars, files, cancel, chans, ctxDone, rvars, watcher, proc, lastOp>>
  /\ Step

(***************************************************************************)
(* watcher: delivery of change sets                                        *)
(***************************************************************************)

\* Watcher.Run, case <-ctx.Done(): the debounce timer is stopped and the
\* watcher returns.
WatcherStop(l) ==
  /\ watcher[l] = "on"
  /\ ctxDone[l]
  /\ watcher' = [watcher EXCEPT ![l] = "stopped"]
  /\ UNCHANGED <<cfg, cvars, fvars, tvars, chans, ctxDone, rvars, th, proc, lastOp>>
  /\ Step

\* Watched files are changed and the debounce timer of a running watcher
\* fires: time.AfterFunc runs the change callback in a goroutine of its own.
WatcherFire(l, k) ==
  /\ Event("Change")
  /\ files' = files + 1
  /\ watcher[l] = "on"
  /\ th[Cb(k)].pc = "none"
  /\ th' = [th EXCEPT ![Cb(k)] = [NoThread EXCEPT !.pc = "changed", !.loop = l]]
  /\ lastOp' = IF lastOp = "StopExec" THEN "none" ELSE lastOp
  /\ UNCHANGED <<cfg, cvars, sumFile, tvars, chans, ctxDone, rvars, watcher, proc>>

\* The change callback of Run: l.Change(changes), then r.restart(), which
\* enters execSteps (OnExecStart).
Changed(t) ==
  /\ t \in Cbs
  /\ th[t].pc = "changed"
  /\ ~IsBuildOnly(cfg)
  /\ SetStatus(onExecStart)
  /\ th' = [th EXCEPT ![t].pc = "steps",
                      ![t].prior = IF Alive(cmd[th[t].loop]) THEN cmd[th[t].loop] ELSE 0]
  /\ UNCHANGED <<cfg, cvars, fvars, cancel, chans, ctxDone, rvars, watcher, proc, lastOp>>
  /\ Step

(***************************************************************************)
(* Managed processes and the wait goroutine of runner.start                *)
(***************************************************************************)

\* A managed process exits on its own with exit code c.
ProcExit(p) ==
  /\ proc[p].st = "alive"
  /\ proc[p].sig = "none"
  /\ \E c \in {0, 1} : proc' = [proc EXCEPT ![p].st = "dead", ![p].code = c]
  /\ UNCHANGED <<cfg, cvars, fvars, tvars, chans, ctxDone, rvars, watcher, th, lastOp>>
  /\ Step

\* A signalled process dies (SIGTERM may be ignored for a while; SIGKILL
\* cannot); exec's ExitCode() of a signalled process is -1, non-zero.
ProcDie(p) ==
  /\ proc[p].st = "alive"
  /\ proc[p].sig # "none"
  /\ proc' = [proc EXCEPT ![p].st = "dead", ![p].code = 1]
  /\ UNCHANGED <<cfg, cvars, fvars, tvars, chans, ctxDone, rvars, watcher, th, lastOp>>
  /\ Step

\* The wait goroutine after cmd.Wait() returned: under runner.mu it reads
\* stopping and clears cmd if that is still its own process; it ends here
\* when stopping was set.
WaitLock(p) ==
  /\ proc[p].st = "dead"
  /\ proc[p].w = "wait"
  /\ LET l == proc[p].loop IN
     /\ cmd' = [cmd EXCEPT ![l] = IF @ = p THEN 0 ELSE @]
     /\ proc' = [proc EXCEPT ![p] = IF stopping[l] THEN NoProc ELSE [@ EXCEPT !.w = "notify"]]
  /\ UNCHANGED <<cfg, cvars, fvars, tvars, chans, ctxDone, stopping, exited, watcher, th, lastOp>>
  /\ Step

\* The wait goroutine, !wasStopping: OnProcessExit(exitCode, err).
WaitNotify(p) ==
  /\ proc[p].w = "notify"
  /\ SetStatus(onProcessExit(proc[p].code))
  /\ proc' = [proc EXCEPT ![p].w = "publish"]
  /\ UNCHANGED <<cfg, cvars, fvars, cancel, chans, ctxDone, rvars, watcher, th, lastOp>>
  /\ Step

\* The wait goroutine, !wasStopping: non-blocking send of the exitInfo on
\* runner.exited; the goroutine ends.
WaitPublish(p) ==
  /\ proc[p].w = "publish"
  /\ LET l == proc[p].loop IN
     exited' = [exited EXCEPT ![l] =
                  IF @.pid = 0
                    THEN [pid |-> p, code |-> proc[p].code,
                          stopped |-> proc[p].sigBy \in Threads]
                    ELSE @]
  /\ proc' = [proc EXCEPT ![p] = NoProc]
  /\ UNCHANGED <<cfg, cvars, fvars, tvars, chans, ctxDone, cmd, stopping, watcher, th, lastOp>>
  /\ Step

Next ==
  \/ Start \/ Build \/ StartExec \/ StopExec \/ Stop \/ Kill
  \/ RestartTarget \/ EnableTarget \/ ReturnStart \/ DisableTarget \/ DisableFlag
  \/ \E l \in Loops :
       \/ RunInit(l) \/ RunSteps(l) \/ RunStart(l)
       \/ SelectDone(l) \/ SelectExited(l) \/ SelectBuild(l)
       \/ SelectExecStop(l) \/ SelectExecStart(l)
       \/ Cleanup(l) \/ Complete(l)
       \/ BuildOnlyInit(l) \/ BuildOnlyBuild(l)
       \/ WatcherStop(l)
       \/ \E k \in 1..MaxCallbacks : WatcherFire(l, k)
  \/ \E t \in Threads :
       \/ Changed(t)
       \/ BuildOnlyChanged(t) \/ BuildOnlySteps(t)
       \/ RestartSteps(t) \/ RestartStop(t) \/ RestartDrain(t)
       \/ RestartStart(t) \/ RestartReturn(t)
       \/ StopWait(t) \/ StopTimeout(t)
  \/ \E p \in Pids :
       \/ ProcExit(p) \/ ProcDie(p)
       \/ WaitLock(p) \/ WaitNotify(p) \/ WaitPublish(p)

Spec == Init /\ [][Next]_vars

\* The scheduling runner.stop relies on: a goroutine blocked in stop's
\* select runs when `done` is closed or the 5 s timer fires, and a process
\* group sent SIGKILL dies (SIGTERM may be ignored for ever).
Fairness ==
  /\ \A t \in Threads : WF_vars(StopWait(t)) /\ WF_vars(StopTimeout(t))
  /\ \A p \in Pids : WF_vars(proc[p].sig = "KILL" /\ ProcDie(p))

SpecFair == Spec /\ Fairness

(***************************************************************************)
(* Packages glob, scan and sumfile: pure functions                         *)
(***************************************************************************)

\* The watch patterns {Raw: "**/*.txt"} and {Raw: "ignored.txt", Negated:
\* true}. Paths are numbered in the ascending order of their names, every
\* path matches the include pattern, and IgnoredPath is "ignored.txt".
IgnoredPath == 2
Included == Paths
Negated == {IgnoredPath}

\* sort.Strings on a list without duplicates, given as the set of its elements.
RECURSIVE sortStrings(_)
sortStrings(S) ==
  IF S = {} THEN <<>>
  ELSE LET m == CHOOSE x \in S : \A y \in S : x <= y
       IN  <<m>> \o sortStrings(S \ {m})

\* ExpandPatterns without the removal of the negated patterns' matches.
ExpandPatterns_keepNegated(d) == {p \in Included : d[p] # NoFile}

\* glob.ExpandPatterns on the directory contents d: the files matching an
\* include pattern, less those matching a negated pattern.
ExpandPatterns(d) == {p \in Included : d[p] # NoFile} \ {p \in Negated : d[p] # NoFile}

\* scan.HashFile of a file <<content, stat>>.
HashFile(f) == <<"sha256", f[1]>>

\* os.Stat of a file <<content, stat>>: its modification time and size.
Stat(f) == <<f[2]>>

\* scan.ScanFiles on the directory contents d.
ScanFiles(d) == [p \in Paths |-> IF p \in ExpandPatterns(d) THEN HashFile(d[p]) ELSE NoFile]

\* The keys of a map keyed by path.
Keys(m) == {p \in DOMAIN m : m[p] # NoFile}

\* Diff without the comparison of the hashes.
Diff_keysOnly(old, new) ==
  [Added    |-> sortStrings({p \in Keys(new) : p \notin Keys(old)}),
   Modified |-> <<>>,
   Removed  |-> sortStrings({p \in Keys(old) : p \notin Keys(new)})]

\* sumfile.Diff.
Diff(old, new) ==
  [Added    |-> sortStrings({p \in Keys(new) : p \notin Keys(old)}),
   Modified |-> sortStrings({p \in Keys(new) : p \in Keys(old) /\ old[p] # new[p]}),
   Removed  |-> sortStrings({p \in Keys(old) : p \notin Keys(new)})]

\* ChangeSet.IsEmpty.
IsEmpty(cs) == Len(cs.Added) = 0 /\ Len(cs.Modified) = 0 /\ Len(cs.Removed) = 0

\* One loop of mergeChanges: the elements of s not yet seen, in the order of
\* s, and the set seen after the loop.
RECURSIVE appendUnseen(_, _)
appendUnseen(s, seen) ==
  IF s = <<>> THEN [list |-> <<>>, seen |-> seen]
  ELSE LET f == Head(s)
           r == appendUnseen(Tail(s), seen \cup {f})
       IN  [list |-> IF f \in seen THEN r.list ELSE <<f>> \o r.list, seen |-> r.seen]

\* watcher.mergeChanges: one `seen` map is shared by the three loops.
mergeChanges(a, b) ==
  LET ad == appendUnseen(a.Added \o b.Added, {})
      mo == appendUnseen(a.Modified \o b.Modified, ad.seen)
      re == appendUnseen(a.Removed \o b.Removed, mo.seen)
  IN  [Added |-> ad.list, Modified |-> mo.list, Removed |-> re.list]

\* The snapshots: maps from paths to hashes.
Snapshots == [Paths -> {NoFile} \cup {HashFile(<<c>>) : c \in Contents}]

\* A step of a pure function: neither the Target nor a Watcher is involved.
PStep == UNCHANGED <<target, calls, nev, wvars>>

\* The state of the program outside the call of a pure function.
PureInit ==
  /\ TargetInit
  /\ cfg = [build |-> <<"make">>, exec |-> <<"serve">>]
  /\ WatcherIdle
  /\ res = <<>>

\* A call of sumfile.Diff(old, new) returns.
DiffCall ==
  /\ res = <<>>
  /\ res' = Diff(arg[1], arg[2])
  /\ arg' = arg
  /\ PStep

\* Diff is called on any two snapshots.
DiffInit == PureInit /\ arg \in Snapshots \X Snapshots

SpecDiff == DiffInit /\ [][DiffCall]_vars

\* Strings are sequences of characters. The characters, in ascending order
\* of their byte values; paths are made of letters and spaces, hashes of
\* hexadecimal digits.
Alphabet == <<"\n", " ", "0", "1", "a", "b">>

Ord(c) == CHOOSE i \in 1..Len(Alphabet) : Alphabet[i] = c

\* The strings over the characters C of length 1..n.
StringsOver(C, n) == UNION {[1..k -> C] : k \in 1..n}

\* File paths: no leading or trailing space.
Names == {s \in StringsOver({" ", "a", "b"}, MaxNameLen) : s[1] # " " /\ s[Len(s)] # " "}

\* The maps from path to hash (one hexadecimal digit) with at most MaxEntries
\* entries.
Mappings ==
  UNION {[D -> StringsOver({"0", "1"}, 1)] : D \in {D \in SUBSET Names : Cardinality(D) <= MaxEntries}}

\* a < b on strings (Go compares byte-wise).
RECURSIVE StringLess(_, _)
StringLess(a, b) ==
  IF b = <<>> THEN FALSE
  ELSE IF a = <<>> THEN TRUE
  ELSE IF Head(a) = Head(b) THEN StringLess(Tail(a), Tail(b))
  ELSE Ord(Head(a)) < Ord(Head(b))

\* Write's sort.Slice by Path.
RECURSIVE sortByPath(_)
sortByPath(S) ==
  IF S = {} THEN <<>>
  ELSE LET m == CHOOSE x \in S : \A y \in S \ {x} : StringLess(x, y)
       IN  <<m>> \o sortByPath(S \ {m})

\* The lines Write prints for the paths ps of the map m: "%s %s\n".
RECURSIVE printEntries(_, _)
printEntries(ps, m) ==
  IF ps = <<>> THEN <<>>
  ELSE Head(ps) \o <<" ">> \o m[Head(ps)] \o <<"\n">> \o printEntries(Tail(ps), m)

\* sumfile.Write: the content of the file written for the map m.
Write(m) == printEntries(sortByPath(DOMAIN m), m)

\* bufio.Scanner with ScanLines: the lines of a text, without their newlines.
RECURSIVE scanLines(_, _)
scanLines(text, line) ==
  IF text = <<>> THEN (IF line = <<>> THEN <<>> ELSE <<line>>)
  ELSE IF Head(text) = "\n" THEN <<line>> \o scanLines(Tail(text), <<>>)
  ELSE scanLines(Tail(text), Append(line, Head(text)))

\* strings.TrimSpace.
RECURSIVE TrimSpace(_)
TrimSpace(s) ==
  IF s = <<>> THEN s
  ELSE IF Head(s) = " " THEN TrimSpace(Tail(s))
  ELSE IF s[Len(s)] = " " THEN TrimSpace(SubSeq(s, 1, Len(s) - 1))
  ELSE s

\* strings.Fields: the maximal runs of non-space characters.
RECURSIVE Fields(_, _)
Fields(s, word) ==
  IF s = <<>> THEN (IF word = <<>> THEN <<>> ELSE <<word>>)
  ELSE IF Head(s) = " "
       THEN (IF word = <<>> THEN <<>> ELSE <<word>>) \o Fields(Tail(s), <<>>)
       ELSE Fields(Tail(s), Append(word, Head(s)))

\* The loop of Read over the lines: entries[parts[0]] = parts[1] for the
\* lines of exactly two fields.
RECURSIVE readLines(_, _)
readLines(lines, entries) ==
  IF lines = <<>> THEN entries
  ELSE LET line == TrimSpace(Head(lines))
           parts == Fields(line, <<>>)
       IN  IF line = <<>> \/ Len(parts) # 2
           THEN readLines(Tail(lines), entries)
           ELSE readLines(Tail(lines),
                  [k \in DOMAIN entries \cup {parts[1]} |->
                     IF k = parts[1] THEN parts[2] ELSE entries[k]])

\* sumfile.Read of a file with the given content.
Read(text) == readLines(scanLines(text, <<>>), <<>>)

\* sumfile.Write(path, arg) returns: the file holds the printed entries.
WriteCall ==
  /\ res = <<>>
  /\ res' = <<"written", Write(arg)>>
  /\ arg' = arg
  /\ PStep

\* sumfile.Read(path) of the file written returns its entries.
ReadCall ==
  /\ res # <<>>
  /\ res[1] = "written"
  /\ res' = <<"read", res[2], Read(res[2])>>
  /\ arg' = arg
  /\ PStep

\* Any map is written and read back.
SumInit == PureInit /\ arg \in Mappings

SpecSum == SumInit /\ [][WriteCall \/ ReadCall]_vars

(***************************************************************************)
(* Package config: template processing of a YAML document                  *)
(***************************************************************************)

\* The variable names of a document. Each source gives its own value ("env",
\* "parent", "doc", the fallback of a default), so that a result shows where
\* it came from.
VarKeys == {"A", "B"}

\* A name without an entry in a map of variables.
Unset == "(unset)"

\* What a template prints for a missing key (missingkey=zero).
noValuePlaceholder == "<no value>"

\* The passes of resolveVars.
maxPasses == 10

\* The values of a vars: entry and of a reference in the body: a literal, a
\* reference {{ .k }}, or a reference with a fallback {{ .k | default "v" }}.
NoExpr == [op |-> "unset", k |-> "", v |-> ""]
Refs == {[op |-> "ref", k |-> k, v |-> ""] : k \in VarKeys}
       \cup {[op |-> "default", k |-> k, v |-> "fallback"] : k \in VarKeys}
Exprs == {[op |-> "lit", k |-> "", v |-> "doc"]} \cup Refs

\* The map b laid over the map a: b wins.
Overlay(a, b) == [k \in VarKeys |-> IF b[k] # Unset THEN b[k] ELSE a[k]]

\* resolveExpr / executeTemplate on one expression with template data td.
evalExpr(x, td) ==
  CASE x.op = "lit" -> x.v
    [] x.op = "ref" -> IF td[x.k] # Unset THEN td[x.k] ELSE noValuePlaceholder
    [] x.op = "default" -> IF td[x.k] # Unset THEN td[x.k] ELSE x.v

\* Process: the environment with the WithVars map merged in (env wins), and
\* resolveVars up to its first pass.
ProcessBegin ==
  /\ res = <<>>
  /\ LET unresolved == {k \in VarKeys : arg.doc[k] # NoExpr}
     IN  res' = [pc |-> IF unresolved = {} THEN "render" ELSE "vars",
                 env |-> Overlay(arg.parent, arg.env),
                 resolved |-> [k \in VarKeys |-> Unset],
                 unresolved |-> unresolved,
                 todo |-> unresolved,
                 progress |-> FALSE,
                 pass |-> 1,
                 out |-> Unset,
                 vars |-> [k \in VarKeys |-> Unset]]
  /\ arg' = arg
  /\ PStep

\* resolveVars: one iteration of `for k, expr := range unresolved`, on the
\* key k; the order of the keys within a pass is that of a Go map.
ResolveVar(k) ==
  /\ res # <<>>
  /\ res.pc = "vars"
  /\ k \in res.todo
  /\ LET val == evalExpr(arg.doc[k], Overlay(res.resolved, res.env))
     IN  res' = IF val = noValuePlaceholder
                THEN [res EXCEPT !.todo = @ \ {k}]
                ELSE [res EXCEPT !.todo = @ \ {k},
                                 !.resolved[k] = val,
                                 !.unresolved = @ \ {k},
                                 !.progress = TRUE]
  /\ arg' = arg
  /\ PStep

\* resolveVars: the end of a pass.
EndPass ==
  /\ res # <<>>
  /\ res.pc = "vars"
  /\ res.todo = {}
  /\ res' = IF res.unresolved = {} THEN [res EXCEPT !.pc = "render"]
            ELSE IF ~res.progress \/ res.pass = maxPasses THEN [res EXCEPT !.pc = "error"]
            ELSE [res EXCEPT !.pass = @ + 1, !.todo = res.unresolved, !.progress = FALSE]
  /\ arg' = arg
  /\ PStep

\* processRawConfig, phase 2, and the rest of Process: the whole document is
\* rendered with the resolved vars overlaid by the environment, and the vars
\* returned are read from the rendered vars: section.
Render ==
  /\ res # <<>>
  /\ res.pc = "render"
  /\ LET templateData == Overlay(res.resolved, res.env)
         out == evalExpr(arg.body, templateData)
     IN  res' = IF out = noValuePlaceholder THEN [res EXCEPT !.pc = "error"]
                ELSE [res EXCEPT !.pc = "done",
                                 !.out = out,
                                 !.vars = [k \in VarKeys |->
                                             IF arg.doc[k] = NoExpr THEN Unset
                                             ELSE evalExpr(arg.doc[k], templateData)]]
  /\ arg' = arg
  /\ PStep

\* A document with a vars: section and one reference in its body, the
\* process environment and the parent vars given to WithVars.
ProcessInit ==
  /\ PureInit
  /\ arg \in [env : [VarKeys -> {Unset, "env"}],
              parent : [VarKeys -> {Unset, "parent"}],
              doc : [VarKeys -> {NoExpr} \cup Exprs],
              body : Refs]

SpecProcess ==
  ProcessInit /\ [][ProcessBegin \/ (\E k \in VarKeys : ResolveVar(k)) \/ EndPass \/ Render]_vars

(***************************************************************************)
(* Package runctl: LoadConfig and the loading of the targets' configs      *)
(***************************************************************************)

\* The targets of a runctl.yaml; a target's value for a variable it declares
\* is its own name, the global vars: section's value is "global".
TargetNames == {"t1", "t2"}

NoVars == [k \in VarKeys |-> Unset]

\* runctl.LoadConfig up to its loop over the targets: the resolved global
\* vars are reported in cfg.ResolvedVars and set in the process environment.
LoadConfigBegin ==
  /\ res = <<>>
  /\ res' = [pc |-> "targets",
             environ |-> Overlay(arg.osenv, arg.global),
             ResolvedVars |-> arg.global,
             Vars |-> [t \in TargetNames |-> NoVars],
             done |-> {},
             loaded |-> {},
             sees |-> [t \in TargetNames |-> NoVars]]
  /\ arg' = arg
  /\ PStep

\* LoadConfig: one iteration of `for name, t := range cfg.Targets`, in Go
\* map order: the target's vars are resolved against the global vars and set
\* in the process environment.
ResolveTargetVars(t) ==
  /\ res # <<>>
  /\ res.pc = "targets"
  /\ t \notin res.done
  /\ LET resolved == [k \in VarKeys |->
                        IF arg.targets[t][k] = NoExpr THEN Unset
                        ELSE evalExpr(arg.targets[t][k], res.ResolvedVars)]
     IN  res' = [res EXCEPT !.done = @ \cup {t},
                            !.Vars[t] = resolved,
                            !.environ = Overlay(@, resolved)]
  /\ arg' = arg
  /\ PStep

\* LoadConfig returns.
LoadConfigReturn ==
  /\ res # <<>>
  /\ res.pc = "targets"
  /\ res.done = TargetNames
  /\ res' = [res EXCEPT !.pc = "loaded"]
  /\ arg' = arg
  /\ PStep

\* loadExecrunConfig for target t: the global vars overlaid by the target's
\* vars are given to WithVars, and Process lays the process environment
\* over them; sees is the template data of the target's document.
loadExecrunConfig(t) ==
  /\ res # <<>>
  /\ res.pc = "loaded"
  /\ t \notin res.loaded
  /\ LET parentVars == Overlay(res.ResolvedVars, res.Vars[t])
     IN  res' = [res EXCEPT !.loaded = @ \cup {t},
                            !.sees[t] = Overlay(parentVars, res.environ)]
  /\ arg' = arg
  /\ PStep

\* A runctl.yaml with global vars and per-target vars, and the environment
\* the process was started with.
LoadConfigInit ==
  /\ PureInit
  /\ arg \in [osenv : [VarKeys -> {Unset, "env"}],
              global : [VarKeys -> {Unset, "global"}],
              targets : {f \in [TargetNames -> [VarKeys -> {NoExpr} \cup
                                    {[op |-> "lit", k |-> "", v |-> t] : t \in TargetNames}]] :
                           \A t \in TargetNames : \A k \in VarKeys :
                              f[t][k] = NoExpr \/ f[t][k].v = t}]

SpecLoadConfig ==
  LoadConfigInit /\ [][\/ LoadConfigBegin
                       \/ \E t \in TargetNames : ResolveTargetVars(t)
                       \/ LoadConfigReturn
                       \/ \E t \in TargetNames : loadExecrunConfig(t)]_vars

(***************************************************************************)
(* Package watcher: one Watcher, its Run goroutine and its debounce timer  *)
(***************************************************************************)

\* Watcher.matchesPatterns: negated patterns are skipped.
matchesPatterns(p) == p \in Included

\* Watcher.scan: only the tracked files are visited; a file whose stat equals
\* the cached one keeps its hash of the previous snapshot.
scan ==
  [p \in Paths |->
     IF p \in trackedFiles /\ disk[p] # NoFile
     THEN IF statCache[p] = Stat(disk[p]) /\ currentSums[p] # NoFile
          THEN currentSums[p]
          ELSE HashFile(disk[p])
     ELSE NoFile]

\* A step of the Watcher or of the file system: the Target is not involved.
WStep == UNCHANGED <<target, calls, arg, res>>

\* The file p is written (created or modified) with f = <<content, stat>>,
\* or removed (f = NoFile), by the user or a build step; fsnotify reports it
\* once the Watcher watches the directory.
FileOp(p, f) ==
  /\ wpc # "none"
  /\ nev < MaxEvents
  /\ nev' = nev + 1
  /\ disk[p] # f
  /\ disk' = [disk EXCEPT ![p] = f]
  /\ fsEvents' = IF wpc = "run" THEN fsEvents \cup {p} ELSE fsEvents
  /\ touched' = touched \cup {p}
  /\ quiet' = FALSE
  /\ UNCHANGED <<wpc, trackedFiles, statCache, currentSums, dirty, pendingChanges,
                 debounceTimer, delivered, firing, undelivered>>
  /\ WStep

\* Watcher.SetCurrentSums(initialSums): the hashes are those of the initial
\* scan, the stat cache is read now.
SetCurrentSums ==
  /\ wpc = "new"
  /\ wpc' = "set"
  /\ statCache' = [p \in Paths |-> IF currentSums[p] # NoFile /\ disk[p] # NoFile
                                   THEN Stat(disk[p]) ELSE NoFile]
  /\ UNCHANGED <<disk, fsEvents, trackedFiles, currentSums, dirty, pendingChanges,
                 debounceTimer, delivered, touched, quiet, nev, firing, undelivered>>
  /\ WStep

\* Watcher.buildFileList.
buildFileList == trackedFiles' = ExpandPatterns(disk)

\* Watcher.Run up to its select loop.
WatcherRun ==
  /\ wpc = "set"
  /\ wpc' = "run"
  /\ buildFileList
  /\ UNCHANGED <<disk, fsEvents, statCache, currentSums, dirty, pendingChanges,
                 debounceTimer, delivered, touched, quiet, nev, firing, undelivered>>
  /\ WStep

\* Run's case event := <-fsw.Events.
FsEvent(p) ==
  /\ wpc = "run"
  /\ p \in fsEvents
  /\ fsEvents' = fsEvents \ {p}
  /\ dirty' = (dirty \/ p \in trackedFiles \/ matchesPatterns(p))
  /\ UNCHANGED <<wpc, disk, trackedFiles, statCache, currentSums, pendingChanges,
                 debounceTimer, delivered, touched, quiet, nev, firing, undelivered>>
  /\ WStep

\* The paths of a ChangeSet.
PathsOf(cs) ==
  {cs.Added[i] : i \in 1..Len(cs.Added)}
    \cup {cs.Modified[i] : i \in 1..Len(cs.Modified)}
    \cup {cs.Removed[i] : i \in 1..Len(cs.Removed)}

\* Run's case <-ticker.C with the dirty bit set (without it the tick does nothing).
PollTick ==
  /\ wpc = "run"
  /\ dirty
  /\ dirty' = FALSE
  /\ statCache' = [p \in Paths |->
                     IF p \in trackedFiles /\ disk[p] # NoFile THEN Stat(disk[p]) ELSE NoFile]
  /\ quiet' = TRUE
  /\ LET newSums == scan
         changes == Diff(currentSums, newSums)
     IN  IF IsEmpty(changes)
         THEN UNCHANGED <<currentSums, pendingChanges, debounceTimer, undelivered>>
         ELSE /\ currentSums' = newSums
              /\ pendingChanges' = IF pendingChanges = NoChanges THEN changes
                                   ELSE mergeChanges(pendingChanges, changes)
              /\ debounceTimer' = TRUE
              /\ undelivered' = undelivered \cup PathsOf(changes)
  /\ UNCHANGED <<wpc, disk, fsEvents, trackedFiles, delivered, touched, nev, firing>>
  /\ WStep

\* Run's case <-refreshTicker.C.
RefreshTick ==
  /\ wpc = "run"
  /\ buildFileList
  /\ dirty' = TRUE
  /\ UNCHANGED <<wpc, disk, fsEvents, statCache, currentSums, pendingChanges,
                 debounceTimer, delivered, touched, quiet, nev, firing, undelivered>>
  /\ WStep

\* The timer of time.AfterFunc(debounce, ...) expires: its function starts on
\* a goroutine of its own, reads pendingChanges and calls onChange with it.
DebounceFire ==
  /\ debounceTimer
  /\ debounceTimer' = FALSE
  /\ IF ~IsEmpty(pendingChanges)
     THEN /\ delivered' = pendingChanges
          /\ firing' = firing + 1
          /\ undelivered' = undelivered \ PathsOf(pendingChanges)
     ELSE UNCHANGED <<delivered, firing, undelivered>>
  /\ UNCHANGED <<wpc, disk, fsEvents, trackedFiles, statCache, currentSums, dirty,
                 pendingChanges, touched, quiet, nev>>
  /\ WStep

\* onChange has returned to the timer's function: `pendingChanges = nil`.
DebounceDone ==
  /\ firing > 0
  /\ firing' = firing - 1
  /\ pendingChanges' = NoChanges
  /\ UNCHANGED <<wpc, disk, fsEvents, trackedFiles, statCache, currentSums, dirty,
                 debounceTimer, delivered, touched, quiet, nev, undelivered>>
  /\ WStep

\* execrun.Run has taken its initial scan of a root directory whose files
\* all have their first content, and constructed the Watcher.
WatcherInit ==
  /\ TargetInit
  /\ cfg = [build |-> <<"make">>, exec |-> <<"serve">>]
  /\ PureIdle
  /\ wpc = "new"
  /\ disk \in [Paths -> {NoFile, <<1, 1>>}]
  /\ fsEvents = {}
  /\ trackedFiles = {}
  /\ statCache = [p \in Paths |-> NoFile]
  /\ currentSums = ScanFiles(disk)
  /\ dirty = FALSE
  /\ pendingChanges = NoChanges
  /\ debounceTimer = FALSE
  /\ delivered = NoChanges
  /\ touched = {}
  /\ quiet = FALSE
  /\ firing = 0
  /\ undelivered = {}

SpecWatcher ==
  WatcherInit /\ [][\/ \E p \in Paths : \E c \in Contents, s \in Stats : FileOp(p, <<c, s>>)
                    \/ \E p \in Paths : FileOp(p, NoFile)
                    \/ SetCurrentSums
                    \/ WatcherRun
                    \/ \E p \in Paths : FsEvent(p)
                    \/ PollTick
                    \/ RefreshTick
                    \/ DebounceFire
                    \/ DebounceDone]_vars


(***************************************************************************)
(* gorun: the Runner (go build to one temp binary, start, stop) and Run    *)
(* with its protocol events.  res is the state of one call of gorun.Run:   *)
(* pc is Run's position; binPath says Runner.binPath is set; file that the *)
(* binary exists at that path; cmd that the child process runs; lastBuild  *)
(* is the outcome of the last Runner.Build (history); events the protocol  *)
(* lines written so far; cb the position of the watcher callback for each  *)
(* ChangeSet delivered; watcher is "off" (not launched), "on" or "stopped"  *)
(* (Watcher.Run has returned).                                             *)
(***************************************************************************)

Changes == 1..MaxChanges

\* The outcomes of Runner.Build: success, a failed exec step, a failed go build.
BuildOutcomes(a) == IF a.execSteps > 0 THEN {"ok", "step", "build"} ELSE {"ok", "build"}

\* Runner.Build: an exec step fails before anything is written; a failed
\* go build removes the file at binPath; a successful one writes it and
\* sets Runner.binPath.
Runner_Build(r, outcome) ==
  IF outcome = "step" THEN [r EXCEPT !.lastBuild = "failed"]
  ELSE IF outcome = "build" THEN [r EXCEPT !.lastBuild = "failed", !.file = FALSE]
  ELSE [r EXCEPT !.lastBuild = "ok", !.file = TRUE, !.binPath = TRUE]

\* Runner.Start returns nil: binPath is set and the binary can be executed.
Runner_StartOk(r) == r.binPath /\ r.file

\* Runner.Start.
Runner_Start(r) == [r EXCEPT !.cmd = Runner_StartOk(r)]

\* Runner.Stop.
Runner_Stop(r) == [r EXCEPT !.cmd = FALSE]

\* Runner.Restart returns nil: Build, Stop and Start all succeeded.
Runner_RestartOk(r, outcome) == outcome = "ok" /\ Runner_StartOk(Runner_Build(r, outcome))

\* Runner.Restart: Build; on its error return at once; Stop; Start.
Runner_Restart(r, outcome) ==
  IF outcome # "ok" THEN Runner_Build(r, outcome)
  ELSE Runner_Start(Runner_Stop(Runner_Build(r, outcome)))

\* Notifier.emit: one protocol line of the given type; c is the ChangeSet
\* whose lists the line carries (0: none).
emit(r, type, c) == [r EXCEPT !.events = Append(@, [type |-> type, c |-> c])]

\* Run up to the initial build.
GorunInit ==
  /\ TargetInit
  /\ cfg = [build |-> <<"make">>, exec |-> <<"serve">>]
  /\ WatcherIdle
  /\ arg \in [execSteps : {0, 1}]
  /\ res = [pc |-> "build", binPath |-> FALSE, file |-> FALSE, cmd |-> FALSE,
            lastBuild |-> "none", ctxDone |-> FALSE, watcher |-> "off",
            events |-> <<>>, cb |-> [c \in Changes |-> "none"]]

\* The caller cancels Run's context.
GorunCancel ==
  /\ res.pc # "returned" /\ ~res.ctxDone
  /\ res' = [res EXCEPT !.ctxDone = TRUE]
  /\ UNCHANGED arg /\ PStep

\* Runner.Cleanup, deferred by Run: Stop, and the binary is removed.
Runner_Cleanup(r) == [Runner_Stop(r) EXCEPT !.file = FALSE, !.binPath = FALSE, !.pc = "returned"]

\* The initial r.Build(): on error Run returns "initial build".
GorunBuild ==
  /\ res.pc = "build"
  /\ \E outcome \in BuildOutcomes(arg) :
       LET r == Runner_Build(res, outcome) IN
       res' = IF outcome = "ok" THEN [r EXCEPT !.pc = "start"] ELSE Runner_Cleanup(r)
  /\ UNCHANGED arg /\ PStep

\* The initial r.Start(), n.Started, and the watcher is launched.
GorunStart ==
  /\ res.pc = "start"
  /\ res' = [emit(Runner_Start(res), "started", 0) EXCEPT !.pc = "loop", !.watcher = "on"]
  /\ UNCHANGED arg /\ PStep

\* The watcher's debounce goroutine calls the callback with ChangeSet c:
\* n.Changed(changes), then r.Restart() is entered.
onChange(c) ==
  /\ res.watcher = "on"
  /\ res.cb[c] = "none"
  /\ \A d \in Changes : d < c => res.cb[d] # "none"
  /\ res' = [emit(res, "changed", c) EXCEPT !.cb[c] = "restart"]
  /\ UNCHANGED arg /\ PStep

\* The callback's r.Restart() returns: n.BuildFailed or n.Rebuilt.
onChangeRestart(c) ==
  /\ res.cb[c] = "restart"
  /\ \E outcome \in BuildOutcomes(arg) :
       LET r == Runner_Restart(res, outcome) IN
       res' = [emit(r, IF Runner_RestartOk(res, outcome) THEN "rebuilt" ELSE "build_failed", c)
                 EXCEPT !.cb[c] = "done"]
  /\ UNCHANGED arg /\ PStep

\* Watcher.Run's case <-ctx.Done(): the timer is stopped and Run returns.
GorunWatcherStop ==
  /\ res.watcher = "on" /\ res.ctxDone
  /\ res' = [res EXCEPT !.watcher = "stopped"]
  /\ UNCHANGED arg /\ PStep

\* Run's select: case <-opts.BuildTrigger: r.Restart().
GorunBuildTrigger ==
  /\ res.pc = "loop"
  /\ \E outcome \in BuildOutcomes(arg) : res' = Runner_Restart(res, outcome)
  /\ UNCHANGED arg /\ PStep

\* Run's select: case <-opts.ExecStop: r.Stop().
GorunExecStop ==
  /\ res.pc = "loop" /\ res.cmd
  /\ res' = Runner_Stop(res)
  /\ UNCHANGED arg /\ PStep

\* Run's select: case <-opts.ExecStart: r.Start().
GorunExecStart ==
  /\ res.pc = "loop" /\ ~res.cmd
  /\ res' = Runner_Start(res)
  /\ UNCHANGED arg /\ PStep

\* Run's select: case <-ctx.Done(): n.Stopping(), return nil (r.Cleanup()).
GorunDone ==
  /\ res.pc = "loop" /\ res.ctxDone
  /\ res' = Runner_Cleanup(emit(res, "stopping", 0))
  /\ UNCHANGED arg /\ PStep

SpecGorun ==
  GorunInit /\ [][\/ GorunCancel
                  \/ GorunBuild
                  \/ GorunStart
                  \/ \E c \in Changes : onChange(c)
                  \/ \E c \in Changes : onChangeRestart(c)
                  \/ GorunWatcherStop
                  \/ GorunBuildTrigger
                  \/ GorunExecStop
                  \/ GorunExecStart
                  \/ GorunDone]_vars

(***************************************************************************)
(* Claims                                                                  *)
(***************************************************************************)

\* C1 as stated: in every reachable state of the Target, pid is non-zero
\* if and only if state is running.
C1_PidIffRunning == (pid # 0) <=> (state = StateRunning)

\* C1 amended: a running Target has a non-zero pid, and an idle or exited
\* Target has pid 0 (pid stays set in starting, error and stopped: during a
\* rebuild, after a failed rebuild, and between Stop and the end of the run loop).
C1_PidStatus ==
  /\ state = StateRunning => pid # 0
  /\ state \in {StateIdle, StateExited} => pid = 0

\* C1 witness: the managed process exited on its own with code 0 while the
\* run loop goes on: the Target is exited with pid 0.
C1_Witness ==
  /\ state = StateExited /\ pid = 0
  /\ \E l \in Loops : th[Sup(l)].pc = "select" /\ exited[l].pid # 0

C3_RestartReplaces ==
  \A t \in Threads :
    th[t].pc = "ok"
      => /\ th[t].prior # 0 => ~Alive(th[t].prior)
         /\ cmd[th[t].loop] = th[t].started \/ ~Alive(th[t].started)

\* C4: at most one process started by a runner is alive at any time.
C4_AtMostOneLive == \A l \in Loops : Cardinality(LiveOf(l)) <= 1

\* The handlers of Run: a thread between the delivery of a change set, a
\* Build trigger or an ExecStop and the return of its handler.
HandlerPcs == {"changed", "steps", "stop", "wait", "drain", "start", "es_wait"} \cup ReturnPcs

\* C5: the actions triggered by change sets, build triggers, exec-stop and
\* exec-start signals of one Target are serialized: at most one handler of a
\* run loop is active at any time.
C5_Serialized ==
  \A l \in Loops :
    Cardinality({t \in Threads : th[t].loop = l /\ th[t].pc \in HandlerPcs}) <= 1

\* C6: once the start of a restart has succeeded, the wait goroutine of a
\* process that exited on its own during that restart's pipeline neither
\* calls the process-exit callback nor puts its exit record on the exit channel.
C6_NoStaleExit ==
  [][\A p \in Pids :
       proc[p].old
         => /\ ~(proc[p].w = "notify" /\ proc'[p].w = "publish")
            /\ ~(proc[p].w = "publish" /\ exited[proc[p].loop].pid # p
                  /\ exited'[proc[p].loop].pid = p)]_vars

\* C7: an exit caused by runner.stop is never reported as a process exit
\* (no wait goroutine gets past `wasStopping` for it) and never published
\* on the exit channel.
C7_StoppedExitSilent ==
  /\ \A l \in Loops : ~exited[l].stopped
  /\ \A p \in Pids : proc[p].w \in {"notify", "publish"} => proc[p].sigBy \notin Threads

\* C8: after Stop on a started Target, once its run loops have completed, no
\* managed process is started for it until the next Start.
C8_NoStartAfterStop ==
  [][(lastOp = "Stop" /\ \A l \in Loops : th[Sup(l)].pc \in {"none", "done"})
       => \A p \in Pids : proc'[p].st = "alive" => proc[p].st = "alive"]_vars

\* Nothing is in progress: no handler or callback is active, no signal or
\* exit record is pending, no process is dying and no wait goroutine is left.
Settled ==
  /\ \A t \in Threads : th[t].pc \in {"none", "done", "select", "bo_select"}
  /\ \A l \in Loops : th[Sup(l)].pc = "select" => ~ctxDone[l] /\ exited[l].pid = 0
  /\ buildTrigger = 0 /\ ~execStop /\ ~execStart
  /\ \A p \in Pids : proc[p].st = "free" \/ (proc[p].st = "alive" /\ proc[p].sig = "none")

\* C9: when StopExec was the last operation accepted, on a running Target
\* with a live process, then once everything has settled the Target is
\* not running and its pid is 0.
C9_StopExecSettles ==
  lastOp = "StopExec" /\ Settled => state # StateRunning /\ pid = 0

\* C10 as stated: a failed pipeline run, the initial one included, leaves the
\* run loop alive to serve the next change set or Build: Run never returns
\* "exec failed".
C10_FailureKeepsLoop == \A l \in Loops : th[Sup(l)].err # "exec failed"

\* C10 amended: a pipeline run triggered after the initial one that fails
\* sets the Target to error and returns to the run loop; and every change
\* set delivered and every Build trigger consumed runs the pipeline again
\* (state starting), whatever the state was.
C10_LaterFailureRetries ==
  [][/\ \A t \in Threads :
          /\ (th[t].pc = "steps" /\ th'[t].pc # "steps" /\ th'[t].stepsErr)
               => state' = StateError /\ th'[t].pc = "failed"
          /\ (t \in Sups /\ th[t].pc = "failed" /\ th'[t].pc # "failed")
               => th'[t].pc = "select"
          /\ (t \in Sups /\ th[t].pc = "bo_steps" /\ th'[t].pc # "bo_steps")
               => th'[t].pc = "bo_select"
          /\ (th[t].pc = "changed" /\ th'[t].pc # "changed")
               => th'[t].pc \in {"steps", "bo_steps"} /\ state' = StateStarting
     /\ buildTrigger' < buildTrigger
          => \E l \in Loops :
               /\ \/ th[Sup(l)].pc = "select" /\ th'[Sup(l)].pc = "steps"
                  \/ th[Sup(l)].pc = "bo_select" /\ th'[Sup(l)].pc = "bo_steps"
               /\ state' = StateStarting]_vars

\* C10 witness: a rebuild requested in the run loop has failed: the Target
\* is in error, the prior process is alive and the run loop goes on.
C10_Witness ==
  \E l \in Loops :
    /\ th[Sup(l)].pc = "failed" /\ th[Sup(l)].stepsErr
    /\ state = StateError
    /\ Alive(cmd[l])

\* The pcs at which a goroutine is inside runner.execSteps.
PipelinePcs == {"init_steps", "bo_init", "steps", "bo_steps"}

C12_BuildOnlyCycle ==
  [][IsBuildOnly(cfg) =>
       /\ state' # StateRunning
       /\ \A t \in Threads :
            (th[t].pc \in {"bo_init", "bo_steps"} /\ th'[t].pc # th[t].pc)
               => state' \in {StateExited, StateError}]_vars

\* C13: at most one Build request is ever queued; a Build call that finds
\* one pending changes neither the control channels nor the status (nor
\* anything of the runner); and consuming the pending request leaves none
\* queued and makes exactly one goroutine enter the pipeline, so the calls
\* made while one was pending cause one restart.
C13_BuildCoalesces ==
  [][/\ buildTrigger' <= 1
     /\ (calls' = Append(calls, "Build") /\ buildTrigger > 0)
          => UNCHANGED <<chans, tvars, ctxDone, rvars, watcher, th, proc>>
     /\ buildTrigger' < buildTrigger
          => /\ buildTrigger' = 0
             /\ Cardinality({t \in Threads : /\ th[t].pc \notin PipelinePcs
                                              /\ th'[t].pc \in PipelinePcs}) = 1]_vars

\* C13 witness: with the run loop waiting in select, Build has been called
\* twice in a row, the second call finding the first one pending; one
\* request is queued.
C13_Witness ==
  /\ Len(calls) >= 2
  /\ calls[Len(calls)] = "Build" /\ calls[Len(calls) - 1] = "Build"
  /\ buildTrigger = 1
  /\ \E l \in Loops : th[Sup(l)].pc = "select" /\ state = StateRunning

\* C14: a Stop call that directly follows a Stop call changes nothing of
\* the Target, its run loops, the runner or the processes; a Stop call on a
\* Target without a run loop sets stopped and touches no context, thread or
\* process; and runner.stop on a runner without a live process signals
\* nothing and returns without waiting.
C14_StopIdempotent ==
  [][/\ (calls' = Append(calls, "Stop") /\ calls # <<>> /\ calls[Len(calls)] = "Stop")
          => UNCHANGED <<tvars, chans, ctxDone, rvars, watcher, th, proc>>
     /\ (calls' = Append(calls, "Stop") /\ cancel = 0)
          => state' = StateStopped /\ UNCHANGED <<pid, cancel, ctxDone, rvars, th, proc>>
     /\ \A t \in Threads :
          (/\ th[t].pc \in {"stop", "cleanup"} /\ th'[t].pc # th[t].pc
           /\ ~Alive(cmd[th[t].loop]))
             => proc' = proc /\ th'[t].pc \notin WaitPcs
     /\ (execStop /\ ~execStop')
          => \E l \in Loops :
               /\ th[Sup(l)].pc = "select"
               /\ IF Alive(cmd[l]) THEN th'[Sup(l)].pc = "es_wait"
                                   ELSE proc' = proc /\ th' = th]_vars

\* C14 witness: Stop has been called twice in a row on a Target whose
\* process is still alive: the second call found the state of the first.
C14_Witness ==
  /\ Len(calls) >= 2
  /\ calls[Len(calls)] = "Stop" /\ calls[Len(calls) - 1] = "Stop"
  /\ state = StateStopped /\ cancel = 0
  /\ Alive(pid)

C16_RestartPersistsSums ==
  [][\A t \in Threads :
       /\ (th[t].pc # "steps" /\ th'[t].pc = "steps") => buildCount' = buildCount + 1
       /\ (th[t].pc = "ok" /\ th'[t].pc # "ok") => sumFile' = files']_vars

\* C17: the first process start of a Target (lastStartTime not yet set)
\* leaves restartCount unchanged, and every later process start
\* increments it by exactly one.
C17_RestartCount ==
  [][\A p \in Pids :
       (proc[p].st # "alive" /\ proc'[p].st = "alive")
          => restartCount' = IF lastStartTime THEN restartCount + 1 ELSE restartCount]_vars

\* C18: with an exec list of more than one element, a pipeline run that
\* completes has run the elements before the last, in order, as its last
\* steps, and a process that is started runs the last element.
C18_ExecPrepSteps ==
  [][Len(cfg.exec) > 1 =>
       /\ \A t \in Threads :
            (th[t].pc \in {"init_steps", "steps"} /\ th'[t].pc \in {"init_start", "stop"})
               => \E i \in 0..Len(th'[t].ran) :
                    SubSeq(th'[t].ran, i + 1, Len(th'[t].ran))
                      = SubSeq(cfg.exec, 1, Len(cfg.exec) - 1)
       /\ \A p \in Pids :
            (proc[p].st # "alive" /\ proc'[p].st = "alive")
               => proc'[p].cmdline = cfg.exec[Len(cfg.exec)]]_vars

\* C19: a call of Controller.RestartTarget has the effect of Build: it
\* posts one request on buildTrigger (dropped when one is pending) and
\* changes nothing else of the Target, its run loops or its processes.
C19_RestartIsBuild ==
  [][calls' = Append(calls, "RestartTarget")
       => /\ buildTrigger' = IF buildTrigger < chanCap THEN buildTrigger + 1 ELSE buildTrigger
          /\ UNCHANGED <<tvars, execStop, execStart, ctxDone, rvars, watcher, th, proc>>]_vars

C21_NoCallbackAfterCancel ==
  [][\A t \in Cbs :
       (th[t].pc = "changed" /\ th'[t].pc # "changed") => ~ctxDone[th[t].loop]]_vars

\* C22: when the Watcher completes a scan, the snapshot entry of every tracked
\* path is the hash of the content the file has at that moment, or the path
\* is absent from the snapshot.
C22_ScanSeesContent ==
  [][PollTick =>
       \A p \in trackedFiles :
          \/ currentSums'[p] = NoFile
          \/ disk[p] # NoFile /\ currentSums'[p] = HashFile(disk[p])]_vars

\* C23: at every scan the Watcher's tracked-file set is the pattern list
\* applied to the root directory as it is at that moment, whatever files were
\* created or removed since start-up.
C23_TrackedIsExpansion ==
  [][PollTick => trackedFiles = ExpandPatterns(disk)]_vars

\* C24: a file matching a negated pattern, although it matches an include
\* pattern too, is in no ChangeSet pending or delivered to the callback, and
\* as long as only such files were written or removed no ChangeSet is
\* pending and the callback has not been called.
C24_ExcludedNeverReported ==
  /\ \A p \in Negated : p \notin PathsOf(pendingChanges) \cup PathsOf(delivered)
  /\ (wpc = "run" /\ touched \subseteq Negated)
       => pendingChanges = NoChanges /\ delivered = NoChanges /\ ~debounceTimer

\* The excluded file was edited after start-up, its event set the dirty bit
\* and a scan followed; later a change of another file was delivered.
C24_Witness ==
  /\ wpc = "run"
  /\ IgnoredPath \in touched
  /\ disk[IgnoredPath] # NoFile
  /\ fsEvents = {}
  /\ ~dirty
  /\ delivered # NoChanges

\* C25: a scan of the Watcher that follows another one with no file written
\* or removed in between leaves the snapshot as it is and finds an empty
\* ChangeSet: nothing is added to the pending changes and no timer is armed.
C25_QuietScanFindsNothing ==
  [][(PollTick /\ quiet)
       => /\ currentSums' = currentSums
          /\ pendingChanges' = pendingChanges
          /\ debounceTimer' = debounceTimer]_vars

\* C26: the Added, Modified and Removed lists of every ChangeSet are sorted
\* ascending: of the ChangeSet Diff finds at a scan, of the pending
\* ChangeSet it is merged into, and of the one delivered to the callback.
C26_ChangeSetsSorted ==
  LET Ascending(s) == \A i \in 1..Len(s) : \A j \in 1..Len(s) : i < j => s[i] < s[j]
  IN
  \A cs \in {Diff(currentSums, scan), pendingChanges, delivered} :
     Ascending(cs.Added) /\ Ascending(cs.Modified) /\ Ascending(cs.Removed)

\* C27: Diff(old, new) lists every path that is a key of old or of new in
\* exactly one of Added (key of new only), Removed (key of old only) and
\* Modified (key of both, hashes differ), or in none of them (key of both,
\* hashes equal); it lists no other path; and Diff(s, s) is empty.
C27_DiffPartitions ==
  res # <<>> =>
    LET old == arg[1]
        new == arg[2]
        Count(s, p) == Cardinality({i \in 1..Len(s) : s[i] = p})
    IN  /\ \A p \in Paths :
             /\ Count(res.Added, p) = (IF p \in Keys(new) \ Keys(old) THEN 1 ELSE 0)
             /\ Count(res.Removed, p) = (IF p \in Keys(old) \ Keys(new) THEN 1 ELSE 0)
             /\ Count(res.Modified, p) =
                  (IF p \in Keys(old) \cap Keys(new) /\ old[p] # new[p] THEN 1 ELSE 0)
        /\ old = new => IsEmpty(res)

\* Diff has returned a ChangeSet with an added, a modified and a removed path.
C27_Witness ==
  /\ res # <<>>
  /\ Len(res.Added) > 0
  /\ Len(res.Modified) > 0
  /\ Len(res.Removed) > 0

\* C28: for every map m from paths to hashes, Read of the file Write made of
\* m returns a map equal to m.
C28_WriteReadRoundTrip ==
  (res # <<>> /\ res[1] = "read") => res[3] = arg

\* The value of the variable k from the highest-priority source that defines
\* it: the environment, then the parent vars, then the document's vars:
\* section, whose expression is read the same way. "(cycle)": the vars:
\* entries refer to each other in a circle.
RECURSIVE PriorityValue(_, _)
PriorityValue(k, seen) ==
  IF arg.env[k] # Unset THEN arg.env[k]
  ELSE IF arg.parent[k] # Unset THEN arg.parent[k]
  ELSE IF arg.doc[k] = NoExpr THEN Unset
  ELSE IF k \in seen THEN "(cycle)"
  ELSE LET x == arg.doc[k]
           r == PriorityValue(x.k, seen \cup {k})
       IN  CASE x.op = "lit" -> x.v
             [] x.op = "ref" -> r
             [] x.op = "default" -> IF r = Unset THEN x.v ELSE r

\* C29: when Process succeeds, the reference in the document body, and the
\* references inside the var expressions it depends on, have the value of
\* the highest-priority source that defines the variable: environment, then
\* parent vars, then the document's own vars.
C29_PriorityResolution ==
  LET r == PriorityValue(arg.body.k, {})
      ReferenceValue == IF arg.body.op = "default" /\ r = Unset THEN arg.body.v ELSE r
  IN  (res # <<>> /\ res.pc = "done" /\ ReferenceValue \notin {Unset, "(cycle)"})
         => res.out = ReferenceValue

\* C30: for every target t and every variable k of t's own vars, the value
\* t's config resolution sees for k is t's value, whatever the other targets
\* declare, and the global value the orchestrator reports for k is the
\* resolved global one.
C30_TargetSeesOwnVars ==
  (res # <<>>) =>
     /\ res.ResolvedVars = arg.global
     /\ \A t \in res.loaded : \A k \in VarKeys :
           res.Vars[t][k] # Unset => res.sees[t][k] = res.Vars[t][k]

\* C31: LoadConfig exports the resolved vars without overriding the
\* environment: every variable set in the process environment before
\* LoadConfig has the same value when LoadConfig has returned.
C31_EnvNotOverridden ==
  (res # <<>> /\ res.pc = "loaded")
     => \A k \in VarKeys : arg.osenv[k] # Unset => res.environ[k] = arg.osenv[k]

\* C32: var resolution ends within maxPasses passes; it returns either a map
\* in which every var of the vars: section is resolved, or an error with a
\* var left unresolved, never a partial map; and when vars refer to each
\* other in a circle (none of them set by the environment or the parent
\* vars) it returns the error.
C32_ResolveVarsTotal ==
  res # <<>> =>
    LET Circular == \E C \in SUBSET VarKeys \ {{}} : \A k \in C :
                       /\ arg.doc[k].op \in {"ref", "default"}
                       /\ arg.doc[k].k \in C
                       /\ arg.env[k] = Unset /\ arg.parent[k] = Unset
    IN  /\ res.pass <= maxPasses
        /\ res.pc \in {"render", "done"} =>
              /\ res.unresolved = {}
              /\ \A k \in VarKeys : arg.doc[k] # NoExpr =>
                    res.resolved[k] \notin {Unset, noValuePlaceholder}
        /\ (res.pc = "error" /\ res.unresolved = {}) =>
              \A k \in VarKeys : arg.doc[k] # NoExpr => res.resolved[k] # Unset
        /\ (Circular /\ res.pc # "vars") => (res.pc = "error" /\ res.unresolved # {})

\* C33: as long as the Watcher runs, every path a scan found changed is in
\* the pending ChangeSet until an onChange call carries it (no change is
\* lost), and an onChange call carries only paths found changed since the
\* last call that carried them (no change is delivered twice), whenever the
\* later scans, the timer and the return of the callback take place.
C33_DeliveredExactlyOnce ==
  /\ [](undelivered \subseteq PathsOf(pendingChanges))
  /\ [][(firing' = firing + 1) => PathsOf(delivered') \subseteq undelivered]_vars
\* C34: at most one run loop goroutine of the Target exists at any time:
\* Start launches no run loop while the goroutine of an earlier one has
\* not ended.
C34_OneRunLoop ==
  Cardinality({l \in Loops : th[Sup(l)].pc \notin {"none", "done"}}) <= 1
\* C35: when the Target has been started again after a Stop (as
\* Controller.RestartTarget does) and the new run loop has reported its
\* process (state running, pid of that process), the completion of the old
\* run loop leaves state and pid as the new run set them.
C35_OldCompletionHarmless ==
  [][\A l \in Loops :
       (/\ th[Sup(l)].pc = "complete" /\ th'[Sup(l)].pc = "done"
        /\ ctxDone[l] /\ cancel \notin {0, l}
        /\ state = StateRunning /\ Alive(pid) /\ proc[pid].loop = cancel)
         => (state' = state /\ pid' = pid)]_vars
\* C36: a StopExec, StartExec or Build whose signal was posted while the
\* Target had no run loop is not served by a run loop started later: as
\* long as no other command is made, that loop takes no signal from
\* execStop, execStart or buildTrigger.
C36_NoStaleSignal ==
  [][\A l \in Loops :
       /\ "StopExec" \in posted => ~SelectExecStop(l)
       /\ "StartExec" \in posted => ~SelectExecStart(l)
       /\ "Build" \in posted => ~SelectBuild(l)]_vars
\* C37: a call of Start that passed the state test and returns an error (no
\* run loop goroutine is launched) does not leave the Target in state
\* starting.
C37_FailedStartNotStarting ==
  [][(/\ nev' = nev + 1
      /\ calls'[Len(calls')] = "Start"
      /\ state \notin {StateRunning, StateStarting}
      /\ th' = th)
       => state' # StateStarting]_vars
\* C38: after a failed Runner.Build the binary of the last successful build
\* is still at binPath, and a Start that follows launches it.
C38_FailedBuildKeepsBinary ==
  /\ []((res.lastBuild = "failed" /\ res.binPath) => res.file)
  /\ [][(res.lastBuild = "failed" /\ res.binPath /\ GorunExecStart) => res'.cmd]_vars

\* C39: when a scan's ChangeSet is merged into the ChangeSet pending in the
\* same debounce window, every path is in at most one of the three lists of
\* the result, and a path that was pending already stays in the list it
\* was in (the kind the earliest scan reported).
C39_MergeKeepsFirstKind ==
  [][(PollTick /\ debounceTimer /\ firing = 0 /\ pendingChanges' # pendingChanges)
       => LET In(s, p) == \E i \in 1..Len(s) : s[i] = p
              Count(s, p) == Cardinality({i \in 1..Len(s) : s[i] = p})
              old == pendingChanges
              new == pendingChanges'
          IN  \A p \in Paths :
                /\ Count(new.Added, p) + Count(new.Modified, p) + Count(new.Removed, p) <= 1
                /\ p \in PathsOf(old)
                     => /\ In(new.Added, p) <=> In(old.Added, p)
                        /\ In(new.Modified, p) <=> In(old.Modified, p)
                        /\ In(new.Removed, p) <=> In(old.Removed, p)]_vars

\* C40: the protocol lines written by one gorun.Run are a prefix of
\* started, then pairs of a changed line and one rebuilt or build_failed
\* line with the same change lists, then stopping: started is first and
\* only there, stopping is last, a changed line is followed at once by
\* its result and a result follows its changed line at once.
C40_EventStream ==
  LET ev == res.events
      Results == {"rebuilt", "build_failed"}
  IN  \A i \in 1..Len(ev) :
        /\ (ev[i].type = "started") <=> (i = 1)
        /\ ev[i].type = "stopping" => i = Len(ev)
        /\ ev[i].type = "changed"
             => i = Len(ev) \/ (ev[i+1].type \in Results /\ ev[i+1].c = ev[i].c)
        /\ ev[i].type \in Results
             => i > 1 /\ ev[i-1].type = "changed" /\ ev[i-1].c = ev[i].c
====
